---------------------------- MODULE Spec2Model ----------------------------
(***************************************************************************)
(* Model of src/std/gen/hash.py, the minimal perfect hash generator, and   *)
(* of src/scripts/docs_versions.py.                                        *)
(*                                                                         *)
(*   Graph          the constraint graph and its cycle-checked assignment  *)
(*   StrSaltHash,   the two salted hash function families                  *)
(*   IntSaltHash                                                           *)
(*   generate_hash  the search driver and its sanity check                 *)
(*   read_table     the command line's key reader (its empty-file check)   *)
(*   Format         the formatter of the generated lists                   *)
(*                                                                         *)
(* The specifications share the variables:                                 *)
(*   Spec       main()/generate_hash: one run of the search                *)
(*   FairSpec   Spec, the run taking its next step                         *)
(*   SpecGraph  one Graph object: any sequence of connect calls, then      *)
(*              assign_vertex_values                                       *)
(*   SpecHash   one hash function object under any sequence of calls       *)
(*   SpecFormat one call of a Format object                                *)
(*   SpecDocs   one run of src/scripts/docs_versions.py                    *)
(*   SpecTrials generate_hash's first passes, the objects of a failed      *)
(*              trial staying bound to G, f1 and f2 as in the code         *)
(***************************************************************************)
EXTENDS Integers, Sequences, FiniteSets, TLC

VARIABLES
    pc,        \* position of the run: "read_table", "generate_hash",
               \* "search", then "exit", "done" or "raised"
    keys,      \* generate_hash's argument 'keys': a sequence of keys
    isList,    \* isinstance(keys, (list, tuple))
    Hash,      \* the hash function class: "StrSaltHash" or "IntSaltHash"
    pow2,      \* generate_hash's argument 'pow2'
    trials,    \* the module global 'trials' (--trials)
    NK,        \* len(keys), once computed
    NG,        \* the number of vertices of the next graph
    trial,     \* number of trial graphs so far
    G,         \* the Graph object: [N, adjacent, vertex_values]
    f1,        \* first hash function object: [N, salt]
    f2,        \* second hash function object: [N, salt]
    ret,       \* what the last call returned or raised
    created,   \* objects constructed and random values drawn so far
    edges,     \* SpecGraph: the connect calls made so far, in order
    hist,      \* SpecHash: what the calls of f1 so far took and returned
    fmt,       \* SpecFormat: a Format object and its call's arguments
    docs       \* SpecDocs: docs_versions.py's stdin, versions and entries

vars == <<pc, keys, isList, Hash, pow2, trials, NK, NG, trial, G, f1, f2,
          ret, created, edges, hist, fmt, docs>>

\* ------------------------------------------------------------------------
\* Bounds of the model

\* SpecGraph: graphs of 0..MaxN vertices
MaxN == 3
\* SpecGraph: at most MaxEdges connect calls
MaxEdges == 3
\* SpecGraph: the edge values connect is called with (some are >= N)
EdgeValues == {1, 5}
\* Spec: key lists of 0..MaxKeys keys
MaxKeys == 2
\* Spec: the global 'trials' ranges over 1..MaxTrials
MaxTrials == 2
\* SpecHash: hash functions with N in 1..MaxHashN
MaxHashN == 3
\* SpecTrials: the first MaxPasses passes of the search loop
MaxPasses == 3
\* SpecDocs: 0..MaxLines lines on stdin
MaxLines == 2
\* SpecFormat: sequences of 0..MaxElts elements
MaxElts == 3
\* SpecFormat: elements whose text has 0..MaxEltLen characters
MaxEltLen == 3

\* ------------------------------------------------------------------------
\* Helpers

Max(a, b) == IF a >= b THEN a ELSE b

\* the least element of a non-empty set of integers
Min(S) == CHOOSE x \in S : \A y \in S : x <= y

Range(s) == {s[i] : i \in DOMAIN s}

\* all sequences over S of length exactly n
RECURSIVE SeqsOfLen(_, _)
SeqsOfLen(S, n) ==
    IF n = 0 THEN {<<>>}
    ELSE {Append(s, x) : s \in SeqsOfLen(S, n - 1), x \in S}

\* all sequences over S of length 0..n
SeqsUpTo(S, n) == UNION {SeqsOfLen(S, k) : k \in 0..n}

\* Then(value), the value computed once: TLC evaluates a name of a LET anew
\* at each use when it evaluates ENABLED, a bound variable never.
Bind(value, Then(_)) == CHOOSE r \in {Then(v) : v \in {value}} : TRUE

\* ------------------------------------------------------------------------
\* class Graph

\* no Format object, no run of docs_versions.py
NoFormat == [self |-> "none"]
NoDocs == [stdin |-> "none"]

\* 'parent' of a root on the stack: Python's None, equal to no vertex
None == -1

\* the mutant of Graph: one vertex more than asked for
GraphWithSpareVertex(N) ==
    [N |-> N + 1, adjacent |-> [v \in 0..N |-> <<>>], vertex_values |-> <<>>]

\* Graph.__init__: N vertices, empty adjacency lists (the defaultdict),
\* no vertex_values attribute yet
Graph(N) ==
    [N |-> N, adjacent |-> [v \in 0..(N - 1) |-> <<>>], vertex_values |-> <<>>]

\* the mutant of connect: the edge is put in vertex1's list only
connectOneWay(g, vertex1, vertex2, edge_value) ==
    [g EXCEPT !.adjacent[vertex1] = Append(@, <<vertex2, edge_value>>)]

\* Graph.connect: append to both adjacency lists, vertex1's first
connect(g, vertex1, vertex2, edge_value) ==
    LET a1 == [g.adjacent EXCEPT ![vertex1] = Append(@, <<vertex2, edge_value>>)]
        a2 == [a1 EXCEPT ![vertex2] = Append(@, <<vertex1, edge_value>>)]
    IN  [g EXCEPT !.adjacent = a2]

\* the mutant of SkipParent: every edge back to the parent is skipped
SkipParentAlways(skip, neighbor, parent) == neighbor = parent

\* 'if skip and neighbor == parent'
SkipParent(skip, neighbor, parent) == skip /\ neighbor = parent

\* the mutant of NeighborValue: the parent's value is added
NeighborValueAdded(edge_value, value, N) == (edge_value + value) % N

\* the value given to a newly reached vertex
NeighborValue(edge_value, value, N) == (edge_value - value) % N

\* the 'for neighbor, edge_value in self.adjacent[vertex]' loop from its
\* i-th element on; s is [vertex_values, visited, tovisit, cyclic, root]
RECURSIVE ForNeighbors(_, _, _, _, _, _)
ForNeighbors(g, parent, vertex, i, skip, s) ==
    IF i > Len(g.adjacent[vertex]) THEN s
    ELSE LET neighbor == g.adjacent[vertex][i][1]
             edge_value == g.adjacent[vertex][i][2]
         IN  IF SkipParent(skip, neighbor, parent)
             THEN ForNeighbors(g, parent, vertex, i + 1, FALSE, s)
             ELSE IF s.visited[neighbor]
             THEN [s EXCEPT !.cyclic = TRUE]
             ELSE Bind([s EXCEPT
                          !.tovisit = Append(@, <<vertex, neighbor>>),
                          !.vertex_values[neighbor] =
                              NeighborValue(edge_value, s.vertex_values[vertex], g.N)],
                       LAMBDA next :
                          ForNeighbors(g, parent, vertex, i + 1, skip, next))

\* the 'while tovisit' loop
RECURSIVE WhileToVisit(_, _)
WhileToVisit(g, s) ==
    IF s.tovisit = <<>> THEN s
    ELSE LET top == s.tovisit[Len(s.tovisit)]
             popped == [s EXCEPT
                          !.tovisit = SubSeq(@, 1, Len(@) - 1),
                          !.visited[top[2]] = TRUE]
         IN  Bind(ForNeighbors(g, top[1], top[2], 1, TRUE, popped),
                  LAMBDA after :
                     IF after.cyclic THEN after ELSE WhileToVisit(g, after))

\* the 'for root in range(self.N)' loop from 'root' on: the roots it does
\* not pass over ('if visited[root]: continue') are the unvisited ones, in
\* increasing order
RECURSIVE ForRoots(_, _, _)
ForRoots(g, root, s) ==
    LET unvisited == {v \in root..(g.N - 1) : ~s.visited[v]}
    IN  IF unvisited = {} THEN s
        ELSE Bind(Min(unvisited),
                  LAMBDA r :
                     Bind(WhileToVisit(g, [s EXCEPT !.vertex_values[r] = 0,
                                                    !.tovisit = <<<<None, r>>>>,
                                                    !.root = r]),
                          LAMBDA after :
                             IF after.cyclic THEN after
                             ELSE ForRoots(g, r + 1, after)))

\* what a call returned or raised
Return(value) == [kind |-> "return", value |-> value]
Raise(exception) == [kind |-> exception]
NoReturn == [kind |-> "none"]

\* what the search has found: False when cyclic, else the final check
AssignResult(g, s, vertex_values) ==
    [ret |-> IF s.cyclic THEN Return(FALSE)
             ELSE IF \E v \in 0..(g.N - 1) : vertex_values[v] < 0
             THEN Raise("AssertionError")
             ELSE Return(TRUE),
     g |-> [g EXCEPT !.vertex_values = vertex_values]]

\* Graph.assign_vertex_values, statement by statement: what it returns
\* (True, False) or raises (AssertionError) and the object afterwards
assign_vertex_values_literal(g) ==
    Bind([vertex_values |-> [v \in 0..(g.N - 1) |-> -1],
          visited |-> [v \in 0..(g.N - 1) |-> FALSE],
          tovisit |-> <<>>,
          cyclic |-> FALSE,
          root |-> 0],
         LAMBDA s0 :
            Bind(ForRoots(g, 0, s0),
                 LAMBDA s : AssignResult(g, s, s.vertex_values)))

\* Graph.assign_vertex_values, as the model evaluates it.  A root without
\* edges is given 0 and marked visited, and its pass of the while loop
\* touches nothing else (lines 143-149 with an empty adjacency list), so
\* these roots are done beforehand and ForRoots passes over them as
\* visited; when a cycle ends the search at root r, the roots after r were
\* never reached and keep -1.  AssignAgrees checks that the result is that
\* of the literal form on every graph of SpecGraph.
assign_vertex_values(g) ==
    Bind([vertex_values |->
              [v \in 0..(g.N - 1) |-> IF g.adjacent[v] = <<>> THEN 0 ELSE -1],
          visited |-> [v \in 0..(g.N - 1) |-> g.adjacent[v] = <<>>],
          tovisit |-> <<>>,
          cyclic |-> FALSE,
          root |-> 0],
         LAMBDA s0 :
            Bind(ForRoots(g, 0, s0),
                 LAMBDA s :
                    Bind(IF s.cyclic
                         THEN [v \in 0..(g.N - 1) |->
                                  IF g.adjacent[v] = <<>> /\ v > s.root THEN -1
                                  ELSE s.vertex_values[v]]
                         ELSE s.vertex_values,
                         LAMBDA vertex_values :
                            AssignResult(g, s, vertex_values))))

\* ------------------------------------------------------------------------
\* SpecGraph: one Graph object

NoHash == [N |-> 0, salt |-> <<>>]

InitGraph ==
    /\ pc = "graph"
    /\ keys = <<>> /\ isList = TRUE /\ Hash = "StrSaltHash" /\ pow2 = FALSE
    /\ trials = 1 /\ NK = 0 /\ NG = 0 /\ trial = 0
    /\ G \in {Graph(N) : N \in 0..MaxN}
    /\ f1 = NoHash /\ f2 = NoHash
    /\ ret = NoReturn
    /\ created = [graphs |-> 1, hashes |-> 0, draws |-> 0]
    /\ edges = <<>>
    /\ hist = {}
    /\ fmt = NoFormat /\ docs = NoDocs

\* G.connect(v1, v2, e), while the graph is being built
GConnect(v1, v2, e) ==
    /\ pc = "graph"
    /\ ret.kind = "none"
    /\ Len(edges) < MaxEdges
    /\ G' = connect(G, v1, v2, e)
    /\ edges' = Append(edges, <<v1, v2, e>>)
    /\ UNCHANGED <<pc, keys, isList, Hash, pow2, trials, NK, NG, trial,
                   f1, f2, ret, created, hist, fmt, docs>>

\* G.assign_vertex_values()
GAssign ==
    /\ pc = "graph"
    /\ ret.kind = "none"
    /\ LET r == assign_vertex_values(G)
       IN  G' = r.g /\ ret' = r.ret
    /\ UNCHANGED <<pc, keys, isList, Hash, pow2, trials, NK, NG, trial,
                   f1, f2, created, edges, hist, fmt, docs>>

NextGraph ==
    \/ \E v1 \in 0..(G.N - 1), v2 \in 0..(G.N - 1), e \in EdgeValues :
          GConnect(v1, v2, e)
    \/ GAssign

SpecGraph == InitGraph /\ [][NextGraph]_vars

\* ------------------------------------------------------------------------
\* The graph's claims

\* the registered edges with both ends in S
EdgesWithin(S) == {i \in DOMAIN edges : edges[i][1] \in S /\ edges[i][2] \in S}

\* An undirected multigraph is a forest iff every non-empty set of vertices
\* holds fewer edges than vertices (a self-loop is one edge on one vertex,
\* two parallel edges are two edges on two vertices).
IsForest ==
    \A S \in (SUBSET (0..(G.N - 1))) \ {{}} :
        Cardinality(EdgesWithin(S)) <= Cardinality(S) - 1

\* the two forms of assign_vertex_values agree
AssignAgrees ==
    pc = "graph" => assign_vertex_values(G) = assign_vertex_values_literal(G)

\* what assign_vertex_values returned
ReturnedTrue == ret.kind = "return" /\ ret.value = TRUE
ReturnedFalse == ret.kind = "return" /\ ret.value = FALSE

\* C2: whenever assign_vertex_values returns True, every vertex value lies
\* in [0, N) and every registered edge (v1, v2, e) satisfies
\* (vertex_values[v1] + vertex_values[v2]) mod N = e mod N.
C2_AssignedValuesSatisfyEdges ==
    (pc = "graph" /\ ReturnedTrue) =>
        /\ \A v \in 0..(G.N - 1) : G.vertex_values[v] \in 0..(G.N - 1)
        /\ \A i \in DOMAIN edges :
              (G.vertex_values[edges[i][1]] + G.vertex_values[edges[i][2]]) % G.N
                  = edges[i][3] % G.N

\* a tree of two edges, one value at least N, assigned
C2_Witness ==
    /\ pc = "graph" /\ ReturnedTrue /\ Len(edges) = 2
    /\ \E i \in DOMAIN edges : edges[i][3] >= G.N
    /\ \E v \in 0..(G.N - 1) : G.vertex_values[v] > 0

\* C3: assign_vertex_values returns True iff the multigraph is acyclic
\* (self-loops and parallel edges count as cycles); on a cyclic graph it
\* returns False and raises nothing.
C3_TrueIffAcyclic ==
    (pc = "graph" /\ ret.kind # "none") =>
        /\ ret.kind = "return"
        /\ ReturnedTrue <=> IsForest

\* a pair of parallel edges and no other cycle, found cyclic
C3_Witness ==
    /\ pc = "graph" /\ ReturnedFalse /\ Len(edges) = 3
    /\ \E i, j \in DOMAIN edges :
          /\ i < j
          /\ edges[i][1] = edges[j][2] /\ edges[i][2] = edges[j][1]
          /\ edges[i][1] # edges[i][2]
          /\ \A k \in DOMAIN edges : edges[k][1] # edges[k][2]

\* ------------------------------------------------------------------------
\* Keys

\* A key is [str, chars]: whether it is a Python str, and its code points.
Str(chars) == [str |-> TRUE, chars |-> chars]

\* the keys of the model: "", "a", "ab", "é" and one key that is no str
\* (the bytes object b"a")
StrKeys == {Str(<<>>), Str(<<97>>), Str(<<97, 98>>), Str(<<233>>)}
KeyUniverse == StrKeys \cup {[str |-> FALSE, chars |-> <<97>>]}

\* the UTF-8 bytes of one code point (up to U+FFFF)
Utf8(c) ==
    IF c < 128 THEN <<c>>
    ELSE IF c < 2048 THEN <<192 + (c \div 64), 128 + (c % 64)>>
    ELSE <<224 + (c \div 4096), 128 + ((c \div 64) % 64), 128 + (c % 64)>>

\* the mutant of encode: the line's newline is left on the key (and a
\* character outside ASCII becomes "?")
encodeWithNewline(chars) ==
    [i \in DOMAIN chars |-> IF chars[i] < 128 THEN chars[i] ELSE 63] \o <<10>>

\* key.encode()
RECURSIVE encode(_)
encode(chars) ==
    IF chars = <<>> THEN <<>> ELSE Utf8(Head(chars)) \o encode(Tail(chars))

\* ------------------------------------------------------------------------
\* class StrSaltHash, class IntSaltHash

\* anum_chars.encode(): the bytes of a-z, A-Z and 0-9
anum_chars == (97..122) \cup (65..90) \cup (48..57)

\* the outcomes of random.choice(anum_chars.encode()) the model draws:
\* "0" and "1"
StrSaltSample == {48, 49}

\* the outcomes of random.randrange(1, N) the model draws
IntSaltSample == {1, 2}

\* the values one draw of a hash function of class cls and size N can give;
\* randrange(1, N) has none when N <= 1 and raises ValueError
Draws(cls, N) ==
    IF cls = "StrSaltHash" THEN anum_chars \cap StrSaltSample
    ELSE (1..(N - 1)) \cap IntSaltSample

\* the mutant of NewHash: the salt is one object shared by all instances
\* (a class attribute), here the one f1 holds
NewHashSharedSalt(N) == [N |-> N, salt |-> f1.salt]

\* StrSaltHash.__init__, IntSaltHash.__init__
NewHash(N) == [N |-> N, salt |-> <<>>]

\* The random values of one hash function object, by the salt position each
\* is drawn for: a position is drawn once, when the salt first grows to it.
Tapes(cls, N, n) == SeqsOfLen(Draws(cls, N), n)

\* the mutant of GrowSalt: the new values are put in front of the salt
GrowSaltInFront(salt, n, tape) ==
    IF Len(salt) < n THEN SubSeq(tape, Len(salt) + 1, n) \o salt ELSE salt

\* 'while len(self.salt) < len(key): self.salt.append(<draw>)'
GrowSalt(salt, n, tape) ==
    IF Len(salt) < n THEN salt \o SubSeq(tape, Len(salt) + 1, n) ELSE salt

\* sum(self.salt[i] * c for i, c in enumerate(key)), from position i on
RECURSIVE SumProducts(_, _, _)
SumProducts(salt, key, i) ==
    IF i > Len(key) THEN 0
    ELSE salt[i] * key[i] + SumProducts(salt, key, i + 1)

\* __call__ of either class on a str: what it returns or raises, the object
\* afterwards, and the number of values drawn
call(cls, f, chars, tape) ==
    LET key == encode(chars)
    IN  IF Len(f.salt) < Len(key) /\ Draws(cls, f.N) = {}
        THEN [ret |-> Raise("ValueError"), f |-> f, drawn |-> 0]
        ELSE Bind(GrowSalt(f.salt, Len(key), tape),
                  LAMBDA salt :
                     [ret |-> Return(SumProducts(salt, key, 1) % f.N),
                      f |-> [f EXCEPT !.salt = salt],
                      drawn |-> Len(salt) - Len(f.salt)])

\* ------------------------------------------------------------------------
\* SpecHash: one hash function object, f1

NoGraph == [N |-> 0, adjacent |-> <<>>, vertex_values |-> <<>>]

\* hist.calls: the (key, value) of every call that returned;
\* hist.before: the salt before the latest call
InitHash ==
    /\ pc = "hash"
    /\ keys = <<>> /\ isList = TRUE /\ pow2 = FALSE
    /\ trials = 1 /\ NK = 0 /\ NG = 0 /\ trial = 0
    /\ Hash \in {"StrSaltHash", "IntSaltHash"}
    /\ G = NoGraph
    /\ f1 \in {NewHash(N) : N \in 1..MaxHashN}
    /\ f2 = NoHash
    /\ ret = NoReturn
    /\ created = [graphs |-> 0, hashes |-> 1, draws |-> 0]
    /\ edges = <<>>
    /\ hist = [calls |-> {}, before |-> <<>>]
    /\ fmt = NoFormat /\ docs = NoDocs

\* f1(key), the values drawn being tape[Len(f1.salt) + 1 ..]
HCall(key, tape) ==
    /\ pc = "hash"
    /\ LET r == call(Hash, f1, key.chars, tape)
       IN  /\ f1' = r.f
           /\ ret' = r.ret
           /\ created' = [created EXCEPT !.draws = @ + r.drawn]
           /\ hist' = [calls |-> IF r.ret.kind = "return"
                                 THEN hist.calls \cup {<<key, r.ret.value>>}
                                 ELSE hist.calls,
                       before |-> f1.salt]
    /\ UNCHANGED <<pc, keys, isList, Hash, pow2, trials, NK, NG, trial, G,
                   f2, edges, fmt, docs>>

NextHash ==
    \E key \in StrKeys :
      \E tape \in IF Draws(Hash, f1.N) = {} THEN {<<>>}
                  ELSE Tapes(Hash, f1.N, Len(encode(key.chars))) :
          HCall(key, tape)

SpecHash == InitHash /\ [][NextHash]_vars

\* ------------------------------------------------------------------------
\* The hash functions' claim

IsPrefix(s, t) == Len(s) <= Len(t) /\ SubSeq(t, 1, Len(s)) = s

\* the largest encoded length among the keys hashed so far
RECURSIVE MaxOver(_)
MaxOver(S) ==
    IF S = {} THEN 0
    ELSE LET x == CHOOSE y \in S : TRUE IN Max(x, MaxOver(S \ {x}))

\* C10: for one hash function instance and any sequence of calls, the salt
\* before each call is a prefix of the salt after it, the salt's length is
\* the largest encoded key length hashed so far, and hashing a key again
\* returns the same value, in [0, N).
C10_SaltOnlyGrows ==
    pc = "hash" =>
        /\ IsPrefix(hist.before, f1.salt)
        /\ Len(f1.salt) = MaxOver({Len(encode(c[1].chars)) : c \in hist.calls})
        /\ \A c \in hist.calls : c[2] \in 0..(f1.N - 1)
        /\ \A c, d \in hist.calls : c[1] = d[1] => c[2] = d[2]

\* "é" (two bytes) hashed after "a" (one byte) and "a" hashed again, the
\* salt having grown by a value different from its first
C10_Witness ==
    /\ pc = "hash"
    /\ {c[1] : c \in hist.calls} = {Str(<<97>>), Str(<<233>>)}
    /\ Len(hist.before) = 2 /\ f1.salt[1] # f1.salt[2]
    /\ ret.kind = "return" /\ <<Str(<<97>>), ret.value>> \in hist.calls
    /\ created.draws = 2

\* ------------------------------------------------------------------------
\* generate_hash

\* 'if NG > 100 * (NK + 1)': the factor
CeilingFactor == 100

\* 'while NG < NK + 1: NG *= 2' from NG on
RECURSIVE DoubleUpTo(_, _)
DoubleUpTo(n, least) == IF n < least THEN DoubleUpTo(n * 2, least) ELSE n

\* the mutant of InitialNG: one vertex per key, none to spare
InitialNGNoSpare(nk, p2) == IF p2 THEN DoubleUpTo(1, nk) ELSE nk

\* the number of vertices of the first graph
InitialNG(nk, p2) == IF p2 THEN DoubleUpTo(1, nk + 1) ELSE nk + 1

\* a mutant of GrowNG: 'NG = int(1.05 * NG)', without the max
GrowNGNoMax(n, p2) == IF p2 THEN n * 2 ELSE (105 * n) \div 100

\* a mutant of GrowNG: pow2 is not looked at
GrowNGIgnoresPow2(n, p2) == Max(n + 1, (105 * n) \div 100)

\* 'NG *= 2' or 'NG = max(NG + 1, int(1.05 * NG))'; int(1.05 * NG) is
\* floor(105 * NG / 100) for every NG the search reaches
GrowNG(n, p2) == IF p2 THEN n * 2 ELSE Max(n + 1, (105 * n) \div 100)

\* the mutant of GrowthDue: N grows on every failure after the first
GrowthDueEveryTrial(t, every) == t > 0

\* 'if (trial % trials) == 0: if trial > 0:'
GrowthDue(t, every) == t % every = 0 /\ t > 0

\* NG as the loop body leaves it before the ceiling check
NextNG == IF GrowthDue(trial, trials) THEN GrowNG(NG, pow2) ELSE NG

\* the mutant of OverCeiling: one key too many is counted
OverCeilingOneKeyMore(n, nk) == n > CeilingFactor * (nk + 2)

\* 'if NG > 100 * (NK + 1)'
OverCeiling(n, nk) == n > CeilingFactor * (nk + 1)

\* the mutant of HasDuplicates: the comparison is the wrong way round
HasDuplicatesReversed(ks) == Len(ks) < Cardinality(Range(ks))

\* 'NK != len(set(keys))'
HasDuplicates(ks) == Len(ks) # Cardinality(Range(ks))

\* the longest encoded key
MaxKeyLen(ks) == MaxOver({Len(encode(ks[i].chars)) : i \in DOMAIN ks})

\* 'for hashval, key in enumerate(keys): G.connect(f1(key), f2(key), hashval)'
\* from the i-th key on; t is [g, f1, f2, drawn, ret], c the two calls' results
RECURSIVE ConnectKeys(_, _, _, _, _, _)
ConnectKeys(cls, ks, i, tape1, tape2, t) ==
    IF i > Len(ks) THEN t
    ELSE Bind(<<call(cls, t.f1, ks[i].chars, tape1),
                call(cls, t.f2, ks[i].chars, tape2)>>,
              LAMBDA c :
                 IF c[1].ret.kind # "return" THEN [t EXCEPT !.ret = c[1].ret]
                 ELSE IF c[2].ret.kind # "return"
                 THEN [t EXCEPT !.ret = c[2].ret, !.f1 = c[1].f,
                                !.drawn = @ + c[1].drawn]
                 ELSE Bind([t EXCEPT
                              !.g = connect(@, c[1].ret.value, c[2].ret.value, i - 1),
                              !.f1 = c[1].f, !.f2 = c[2].f,
                              !.drawn = @ + c[1].drawn + c[2].drawn],
                           LAMBDA next :
                              ConnectKeys(cls, ks, i + 1, tape1, tape2, next)))

\* One trial graph of n vertices (lines 315-327): the objects it leaves and
\* what assign_vertex_values returned, or what was raised on the way
Attempt(cls, ks, n, tape1, tape2) ==
    Bind([g |-> Graph(n), f1 |-> NewHash(n), f2 |-> NewHash(n),
          drawn |-> 0, ret |-> NoReturn],
         LAMBDA t0 :
            Bind(ConnectKeys(cls, ks, 1, tape1, tape2, t0),
                 LAMBDA t :
                    IF t.ret.kind # "none" THEN t
                    ELSE Bind(assign_vertex_values(t.g),
                              LAMBDA a : [t EXCEPT !.g = a.g, !.ret = a.ret])))

\* the sanity check of the result (lines 336-339) from the i-th key on:
\* TRUE when no assert fails
RECURSIVE SanityCheck(_, _, _, _, _, _)
SanityCheck(ks, i, g, h1, h2, n) ==
    IF i > Len(ks) THEN TRUE
    ELSE LET key == encode(ks[i].chars)
             v1 == SumProducts(h1.salt, key, 1) % h1.N
             v2 == SumProducts(h2.salt, key, 1) % h2.N
         IN  /\ i - 1 = (g.vertex_values[v1] + g.vertex_values[v2]) % n
             /\ SanityCheck(ks, i + 1, g, h1, h2, n)

\* ------------------------------------------------------------------------
\* Spec: one run, from main() (pc = "read_table") or from a direct call of
\* generate_hash (pc = "generate_hash")

KeyLists == SeqsUpTo(KeyUniverse, MaxKeys)

Init ==
    /\ pc \in {"read_table", "generate_hash"}
    /\ keys \in KeyLists
    /\ isList \in BOOLEAN
    \* read_table returns a list of strs
    /\ pc = "read_table" => (isList /\ \A i \in DOMAIN keys : keys[i].str)
    /\ Hash \in {"StrSaltHash", "IntSaltHash"}
    /\ pow2 \in BOOLEAN
    /\ trials \in 1..MaxTrials
    /\ NK = 0 /\ NG = 0 /\ trial = 0
    /\ G = NoGraph /\ f1 = NoHash /\ f2 = NoHash
    /\ ret = NoReturn
    /\ created = [graphs |-> 0, hashes |-> 0, draws |-> 0]
    /\ edges = <<>>
    /\ hist = {}
    /\ fmt = NoFormat /\ docs = NoDocs

\* read_table's end: 'if not keys: exit(...)', else main goes on to
\* generate_code, which calls generate_hash
ReadTable ==
    /\ pc = "read_table"
    /\ IF keys = <<>>
       THEN pc' = "exit" /\ ret' = Raise("SystemExit")
       ELSE pc' = "generate_hash" /\ ret' = ret
    /\ UNCHANGED <<keys, isList, Hash, pow2, trials, NK, NG, trial, G, f1, f2,
                   created, edges, hist, fmt, docs>>

\* generate_hash up to the search loop (lines 270-296)
Validate ==
    /\ pc = "generate_hash"
    /\ IF ~isList
       THEN /\ pc' = "raised" /\ ret' = Raise("TypeError")
            /\ UNCHANGED <<NK, NG>>
       ELSE IF HasDuplicates(keys)
       THEN /\ pc' = "raised" /\ ret' = Raise("ValueError")
            /\ NK' = Len(keys) /\ UNCHANGED NG
       ELSE IF \E i \in DOMAIN keys : ~keys[i].str
       THEN /\ pc' = "raised" /\ ret' = Raise("TypeError")
            /\ NK' = Len(keys) /\ UNCHANGED NG
       ELSE /\ pc' = "search" /\ ret' = ret
            /\ NK' = Len(keys)
            /\ NG' = InitialNG(Len(keys), pow2)
    /\ UNCHANGED <<keys, isList, Hash, pow2, trials, trial, G, f1, f2,
                   created, edges, hist, fmt, docs>>

\* one pass of 'while True' that ends at the ceiling check (lines 298-309)
TrialExhausted ==
    /\ pc = "search"
    /\ OverCeiling(NextNG, NK)
    /\ NG' = NextNG
    /\ trial' = trial + 1
    /\ pc' = "raised"
    /\ ret' = [kind |-> "TooManyInterationsError", NK |-> NK]
    /\ UNCHANGED <<keys, isList, Hash, pow2, trials, NK, G, f1, f2, created,
                   edges, hist, fmt, docs>>

\* One pass of 'while True' that builds a trial graph (lines 298-328) and,
\* when the loop breaks, the sanity check and the return (lines 334-344).
\* The objects of a failed trial are garbage: lines 315-317 rebind G, f1 and
\* f2 before anything reads them, and an exception drops them with the
\* frame.  The state keeps a trial's objects only when the loop breaks.
TrialAttempt(tape1, tape2) ==
    /\ pc = "search"
    /\ ~OverCeiling(NextNG, NK)
    /\ NG' = NextNG
    /\ trial' = trial + 1
    /\ \E t \in {Attempt(Hash, keys, NextNG, tape1, tape2)} :
       LET break == t.ret.kind = "return" /\ t.ret.value
       IN  /\ G' = IF break THEN t.g ELSE NoGraph
           /\ f1' = IF break THEN t.f1 ELSE NoHash
           /\ f2' = IF break THEN t.f2 ELSE NoHash
           /\ created' = [graphs |-> created.graphs + 1,
                          hashes |-> created.hashes + 2,
                          draws |-> created.draws + t.drawn]
           /\ IF t.ret.kind # "return"
              THEN pc' = "raised" /\ ret' = t.ret
              ELSE IF ~t.ret.value
              THEN pc' = "search" /\ ret' = ret
              ELSE IF SanityCheck(keys, 1, t.g, t.f1, t.f2, NextNG)
              THEN /\ pc' = "done"
                   /\ ret' = [kind |-> "return", f1 |-> t.f1, f2 |-> t.f2,
                              G |-> t.g.vertex_values]
              ELSE pc' = "raised" /\ ret' = Raise("AssertionError")
    /\ UNCHANGED <<keys, isList, Hash, pow2, trials, NK, edges, hist, fmt, docs>>

\* the random values of one trial's hash function
TrialTapes ==
    IF Draws(Hash, NextNG) = {} THEN {<<>>}
    ELSE Tapes(Hash, NextNG, MaxKeyLen(keys))

Next ==
    \/ ReadTable
    \/ Validate
    \/ TrialExhausted
    \/ \E tape1 \in TrialTapes, tape2 \in TrialTapes : TrialAttempt(tape1, tape2)

Spec == Init /\ [][Next]_vars

\* the run is over: read_table exited, or generate_hash returned or raised
Terminated == pc \in {"exit", "done", "raised"}

\* a single-threaded run takes its next step
FairSpec == Spec /\ WF_vars(Next)

\* ------------------------------------------------------------------------
\* The search's claims

\* some key stands at two places of 'keys'
Duplicated == \E i, j \in DOMAIN keys : i # j /\ keys[i] = keys[j]

\* 'keys' is a list of distinct strs
DistinctStrKeys ==
    isList /\ ~Duplicated /\ \A i \in DOMAIN keys : keys[i].str

\* the value a hash function object gives a key it has salt enough for
HashOf(f, k) == SumProducts(f.salt, encode(k.chars), 1) % f.N

\* len() of a table of vertex values
TableLen(table) == Cardinality(DOMAIN table)

Ceiling == CeilingFactor * (Len(keys) + 1)

\* C1: for a list of distinct string keys generate_hash ends in one of two
\* ways: it raises TooManyInterationsError, or it returns (f1, f2, G) with
\* (G[f1(k)] + G[f2(k)]) mod N = index(k) for every key k, N = len(G); the
\* sanity assertion never fails.
C1_PerfectHashOrExhausted ==
    DistinctStrKeys =>
        /\ pc = "raised" => ret.kind = "TooManyInterationsError"
        /\ pc = "done" =>
              /\ ret.kind = "return"
              /\ \A i \in DOMAIN keys :
                    (ret.G[HashOf(ret.f1, keys[i])] + ret.G[HashOf(ret.f2, keys[i])])
                        % TableLen(ret.G) = i - 1

\* two keys, one of two bytes, hashed perfectly after failed trials
C1_Witness ==
    /\ pc = "done" /\ Len(keys) = 2 /\ trial > trials
    /\ \E i \in DOMAIN keys : keys[i] = Str(<<233>>)
    /\ \E v \in DOMAIN ret.G : ret.G[v] > 0

\* C4: when the key list holds a duplicate, generate_hash raises an input
\* error before any trial: no hash function and no graph is created and no
\* random value is drawn.
C4_DuplicateRejectedBeforeTrials ==
    (isList /\ Duplicated) =>
        /\ pc \in {"read_table", "generate_hash", "raised"}
        /\ pc = "raised" => ret.kind = "ValueError"
        /\ trial = 0
        /\ created = [graphs |-> 0, hashes |-> 0, draws |-> 0]

\* ["a", "a"] was rejected
C4_Witness ==
    /\ keys = <<Str(<<97>>), Str(<<97>>)>>
    /\ pc = "raised" /\ ret.kind = "ValueError" /\ NK = 2

\* C5 as claimed: an empty key list is rejected before any trial;
\* generate_hash never runs a trial and never returns for zero keys.
C5_EmptyRejected ==
    (isList /\ keys = <<>>) =>
        /\ trial = 0 /\ created.graphs = 0
        /\ pc # "done"

\* C5 as amended: generate_hash does not reject an empty key list: it runs
\* exactly one trial, with N = 1, which succeeds, and returns G = [0] and
\* two hash functions with empty salts; nothing is raised.  Only read_table,
\* on the command line's path, rejects an empty key file, before
\* generate_hash is called.
C5_EmptyAccepted ==
    (isList /\ keys = <<>>) =>
        /\ pc # "raised"
        /\ pc = "exit" => (trial = 0 /\ created.graphs = 0)
        /\ pc = "search" => (trial = 0 /\ NG = 1)
        /\ pc = "done" =>
              /\ trial = 1 /\ NG = 1
              /\ created = [graphs |-> 1, hashes |-> 2, draws |-> 0]
              /\ ret.kind = "return"
              /\ ret.G = [v \in {0} |-> 0]
              /\ ret.f1 = NewHash(1) /\ ret.f2 = NewHash(1)

\* generate_hash([]) has returned
C5_Witness == isList /\ keys = <<>> /\ pc = "done" /\ trial = 1

\* C6: no trial is attempted with N > 100 * (NK + 1): once N exceeds the
\* ceiling at the start of a trial the search raises
\* TooManyInterationsError, which carries NK; every attempted trial has
\* NK + 1 <= N <= 100 * (NK + 1).
C6_TrialsWithinCeiling ==
    /\ (pc \in {"search", "done"} /\ trial > 0) =>
          /\ created.graphs = trial
          /\ NK + 1 <= NG /\ NG <= Ceiling
    /\ pc = "done" => G.N = NG
    /\ (pc = "raised" /\ ret.kind = "TooManyInterationsError") =>
          /\ ret.NK = Len(keys)
          /\ NG > Ceiling
          /\ created.graphs = trial - 1
    /\ (pc \in {"search", "done", "raised"} /\ NG > Ceiling) =>
          (pc = "raised" /\ ret.kind = "TooManyInterationsError")

\* the search gave up on two keys: the graph would have had over 300 vertices
C6_Witness ==
    /\ pc = "raised" /\ ret.kind = "TooManyInterationsError"
    /\ ret.NK = 2 /\ NG > 300 /\ ~pow2

\* the most passes of the loop a search can make: trials for each N from
\* NK + 1 to the ceiling, and the pass that raises
TrialBound == trials * (Ceiling - Len(keys)) + 1

\* C7: with trials >= 1 the search loop terminates: even if every trial
\* fails N grows after each block of trials until it passes the ceiling, so
\* the number of trials is bounded by a function of NK and trials, in both
\* modes.
C7_SearchTerminates ==
    /\ [](trial <= TrialBound)
    /\ <>Terminated

\* every trial failed, in both modes
C7_Witness ==
    /\ pc = "raised" /\ ret.kind = "TooManyInterationsError"
    /\ trials = 2 /\ pow2 /\ NK = 2 /\ trial = 2 * 7 + 1

\* the change of N that C8 allows in one step of the search
C8_Step(grown) ==
    pc = "search" =>
        /\ NG' # NG => (trial > 0 /\ trial % trials = 0
                        /\ NG' = grown /\ NG' > NG)
        /\ (trial > 0 /\ trial % trials = 0) => NG' # NG

\* C8 as claimed: N changes only after each block of trials consecutive
\* failed trials; in power-of-two mode it is doubled, otherwise it is
\* increased by max(N + 1, 1.05 * N); each step makes N strictly larger.
C8_GrowthAsClaimed ==
    [][C8_Step(IF pow2 THEN 2 * NG
               ELSE NG + Max(NG + 1, (105 * NG) \div 100))]_vars

\* C8 as amended: N changes only after each block of trials consecutive
\* failed trials (not before the first trial); in power-of-two mode it is
\* doubled, otherwise it is set to max(N + 1, floor(1.05 * N)); each step
\* makes N strictly larger.
C8_Growth ==
    [][C8_Step(IF pow2 THEN 2 * NG
               ELSE Max(NG + 1, (105 * NG) \div 100))]_vars

\* N has grown from 40 to 42, by the 1.05 rule, with blocks of two trials
C8_Witness == pc = "search" /\ ~pow2 /\ trials = 2 /\ NG = 42 /\ trial % 2 = 1

IsPowerOfTwo(n) == \E k \in 0..n : 2 ^ k = n

\* C9: with pow2 the N of every trial, and so the final N = len(G), is a
\* power of two; the initial N is the smallest power of two that is at
\* least NK + 1.
C9_PowerOfTwo ==
    (pow2 /\ pc \in {"search", "done"}) =>
        /\ IsPowerOfTwo(NG)
        /\ trial = 0 => (NG >= NK + 1 /\ NG \div 2 < NK + 1)
        /\ pc = "done" => (TableLen(ret.G) = NG /\ ret.f1.N = NG)

\* a table of 8 values for two keys: N grown twice from 4
C9_Witness == pow2 /\ pc = "done" /\ NK = 2 /\ TableLen(ret.G) = 8

\* ------------------------------------------------------------------------
\* SpecTrials: the first passes of generate_hash's loop with nothing
\* dropped: after a failed trial G, f1 and f2 stay bound to its objects
\* until lines 315-317 rebind them.  The ceiling is out of reach within
\* MaxPasses passes (NG <= NK + 1 + MaxPasses < 100 * (NK + 1), or
\* NG <= 2 ^ MaxPasses * 2 * (NK + 1) with pow2 while MaxPasses <= 5).

InitTrials == Init /\ pc = "generate_hash"

\* one pass of 'while True' (lines 298-344), as TrialAttempt, every object
\* left as the code leaves it
TrialPass(tape1, tape2) ==
    /\ pc = "search"
    /\ trial < MaxPasses
    /\ ~OverCeiling(NextNG, NK)
    /\ NG' = NextNG
    /\ trial' = trial + 1
    /\ \E t \in {Attempt(Hash, keys, NextNG, tape1, tape2)} :
           /\ G' = t.g
           /\ f1' = t.f1
           /\ f2' = t.f2
           /\ created' = [graphs |-> created.graphs + 1,
                          hashes |-> created.hashes + 2,
                          draws |-> created.draws + t.drawn]
           /\ IF t.ret.kind # "return"
              THEN pc' = "raised" /\ ret' = t.ret
              ELSE IF ~t.ret.value
              THEN pc' = "search" /\ ret' = ret
              ELSE IF SanityCheck(keys, 1, t.g, t.f1, t.f2, NextNG)
              THEN /\ pc' = "done"
                   /\ ret' = [kind |-> "return", f1 |-> t.f1, f2 |-> t.f2,
                              G |-> t.g.vertex_values]
              ELSE pc' = "raised" /\ ret' = Raise("AssertionError")
    /\ UNCHANGED <<keys, isList, Hash, pow2, trials, NK, edges, hist, fmt, docs>>

NextTrials ==
    \/ Validate
    \/ \E tape1 \in TrialTapes, tape2 \in TrialTapes : TrialPass(tape1, tape2)

SpecTrials == InitTrials /\ [][NextTrials]_vars

\* the number of entries of all adjacency lists of g
RECURSIVE Entries(_, _)
Entries(g, v) ==
    IF v >= g.N THEN 0 ELSE Len(g.adjacent[v]) + Entries(g, v + 1)

\* what C11 says of the objects a pass of the loop leaves
C11_Pass ==
    (pc = "search" /\ pc' \in {"search", "done"}) =>
        \* a new graph and two new hash functions, of this trial's size
        /\ created'.graphs = created.graphs + 1
        /\ created'.hashes = created.hashes + 2
        /\ G'.N = NG' /\ f1'.N = NG' /\ f2'.N = NG'
        \* every salt position was drawn in this trial
        /\ Len(f1'.salt) + Len(f2'.salt) = created'.draws - created.draws
        \* the graph holds this trial's edges and no other: one per key,
        \* between the values f1 and f2 give the key
        /\ Entries(G', 0) = 2 * NK
        /\ \A i \in DOMAIN keys :
              <<HashOf(f2', keys[i]), i - 1>>
                  \in Range(G'.adjacent[HashOf(f1', keys[i])])
        \* what is returned is this trial's
        /\ pc' = "done" =>
              /\ ret'.f1 = f1' /\ ret'.f2 = f2'
              /\ ret'.G = G'.vertex_values

\* C11: every trial creates a new graph and two new hash functions with
\* empty salts; nothing of a failed trial (salts, adjacency lists, vertex
\* values) is reused by a later trial, and the returned f1, f2 and G come
\* from the one successful trial: f1 and f2 are the functions whose values
\* built the graph that produced G.
C11_TrialsShareNothing == [][C11_Pass]_vars

\* two keys hashed perfectly by the third trial, each trial having drawn
\* its own four salt values
C11_Witness ==
    /\ pc = "done" /\ trial = 3 /\ NK = 2
    /\ Len(f1.salt) = 2 /\ created.draws = 12

\* ------------------------------------------------------------------------
\* class Format

\* 'pos = 20': the column the first line is taken to start at
FirstColumn == 20

\* n * ' ' (the empty string when n <= 0)
Spaces(n) == [i \in 1..n |-> " "]

\* ('"%s"' if quote else '%s') % elt, elt given by its text
Quoted(elt, quote) == IF quote THEN <<"\"">> \o elt \o <<"\"">> ELSE elt

\* the mutant of Overflows: the delimiter is not counted
OverflowsWithoutDelimiter(pos, s, self) == pos + Len(s) > self.width

\* 'if pos + len(s) + lendel > self.width'
Overflows(pos, s, self) == pos + Len(s) + Len(self.delimiter) > self.width

\* what is written at a line break: '\n' + (self.indent * ' ')
LineBreak(self) == <<"\n">> \o Spaces(self.indent)

\* 'if not last: aux.write(self.delimiter)'
Separator(self, s, pos, last) == IF last THEN <<>> ELSE self.delimiter

\* the 'for i, elt in enumerate(data)' loop from the i-th element on
RECURSIVE FormatLoop(_, _, _, _, _, _)
FormatLoop(self, data, quote, i, pos, aux) ==
    IF i > Len(data) THEN aux
    ELSE LET s == Quoted(data[i], quote)
             last == i = Len(data)
             break == Overflows(pos, s, self)
             pos1 == IF break THEN self.indent ELSE pos
             sep == Separator(self, s, pos1, last)
         IN  FormatLoop(self, data, quote, i + 1,
                        pos1 + Len(s) + Len(sep),
                        (IF break THEN aux \o LineBreak(self) ELSE aux) \o s \o sep)

\* bytearray.decode(): the characters of the bytes "0" and "1"
decode(bytes) == [i \in DOMAIN bytes |-> IF bytes[i] = 48 THEN "0" ELSE "1"]

\* Format.__call__; data is [kind, value]
Format_call(self, data, quote) ==
    IF data.kind = "bytearray" THEN decode(data.value)
    ELSE IF data.kind # "list" THEN data.value
    ELSE FormatLoop(self, data.value, quote, 1, FirstColumn, <<>>)

\* ------------------------------------------------------------------------
\* SpecFormat: one call of a Format object

\* the texts of the elements: "", "1", "11", ...
ElementTexts == {[i \in 1..n |-> "1"] : n \in 0..MaxEltLen}

\* the arguments 'data': lists (or tuples), bytearrays (a salt) and one
\* other object
ListData ==
    {[kind |-> "list", value |-> v] : v \in SeqsUpTo(ElementTexts, MaxElts)}
BytearrayData ==
    {[kind |-> "bytearray", value |-> v] : v \in SeqsUpTo(StrSaltSample, 2)}
OtherData == {[kind |-> "int", value |-> 7]}

\* Format(width, indent, delimiter): a narrow and a wide page; no and some
\* indent; the delimiters '', ',' and ', '
FormatObjects ==
    [width : {6, 24}, indent : {0, 2},
     delimiter : {<<>>, <<",">>, <<",", " ">>}]

InitFormat ==
    /\ pc = "format"
    /\ keys = <<>> /\ isList = TRUE /\ Hash = "StrSaltHash" /\ pow2 = FALSE
    /\ trials = 1 /\ NK = 0 /\ NG = 0 /\ trial = 0
    /\ G = NoGraph /\ f1 = NoHash /\ f2 = NoHash
    /\ ret = NoReturn
    /\ created = [graphs |-> 0, hashes |-> 0, draws |-> 0]
    /\ edges = <<>>
    /\ hist = {}
    /\ \/ fmt \in [self : FormatObjects, data : ListData, quote : BOOLEAN]
       \/ fmt \in [self : FormatObjects, data : BytearrayData, quote : BOOLEAN]
       \/ fmt \in [self : FormatObjects, data : OtherData, quote : BOOLEAN]
    /\ docs = NoDocs

\* fmt(data, quote)
FormatCall ==
    /\ pc = "format"
    /\ pc' = "formatted"
    /\ ret' = Return(Format_call(fmt.self, fmt.data, fmt.quote))
    /\ UNCHANGED <<keys, isList, Hash, pow2, trials, NK, NG, trial, G, f1, f2,
                   created, edges, hist, fmt, docs>>

NextFormat == FormatCall

SpecFormat == InitFormat /\ [][NextFormat]_vars

\* ------------------------------------------------------------------------
\* The formatter's claim

\* the lines of a text: its pieces between line breaks
RECURSIVE SplitLines(_, _)
SplitLines(text, line) ==
    IF text = <<>> THEN <<line>>
    ELSE IF Head(text) = "\n" THEN <<line>> \o SplitLines(Tail(text), <<>>)
    ELSE SplitLines(Tail(text), Append(line, Head(text)))

\* a text without its line breaks and the n characters after each
RECURSIVE Unwrapped(_, _)
Unwrapped(text, n) ==
    IF text = <<>> THEN <<>>
    ELSE IF Head(text) = "\n"
    THEN Unwrapped(SubSeq(text, 2 + Max(n, 0), Len(text)), n)
    ELSE <<Head(text)>> \o Unwrapped(Tail(text), n)

\* the texts from the i-th on, joined by the delimiter
RECURSIVE Joined(_, _, _)
Joined(texts, delimiter, i) ==
    IF i > Len(texts) THEN <<>>
    ELSE IF i = Len(texts) THEN texts[i]
    ELSE texts[i] \o delimiter \o Joined(texts, delimiter, i + 1)

\* the texts of the elements of the call, and its output's lines
FormatTexts == [i \in DOMAIN fmt.data.value |-> Quoted(fmt.data.value[i], fmt.quote)]
FormatLines == SplitLines(ret.value, <<>>)

\* a list was formatted
FormattedList == pc = "formatted" /\ fmt.data.kind = "list"

\* the line starts with exactly n spaces
StartsWithSpaces(line, n) ==
    /\ n >= 0 /\ Len(line) >= n
    /\ \A j \in 1..n : line[j] = " "
    /\ Len(line) > n => line[n + 1] # " "

\* the output without its line breaks and indents is the joined elements
RoundTrip ==
    Unwrapped(ret.value, fmt.self.indent)
        = Joined(FormatTexts, fmt.self.delimiter, 1)

RECURSIVE ElementStart(_)
ElementStart(i) ==
    IF i = 1 THEN 0
    ELSE ElementStart(i - 1) + Len(FormatTexts[i - 1]) + Len(fmt.self.delimiter)

\* the place in the joined text where the k-th line starts, from 0
RECURSIVE LineStart(_)
LineStart(k) ==
    IF k = 1 THEN 0
    ELSE LineStart(k - 1) + Len(FormatLines[k - 1])
             - (IF k = 2 THEN 0 ELSE Max(fmt.self.indent, 0))

\* the i-th element does not fit on a line of its own
TooLong(i) ==
    fmt.self.indent + Len(FormatTexts[i]) + Len(fmt.self.delimiter) > fmt.self.width

\* the line holds the i-th element and nothing else
AloneOnLine(line, i) ==
    line = Spaces(fmt.self.indent) \o FormatTexts[i]
               \o (IF i = Len(FormatTexts) THEN <<>> ELSE fmt.self.delimiter)

Digits == <<"0", "1", "2", "3", "4", "5", "6", "7", "8", "9">>

\* line.strip(): the line without the white space at its ends
RECURSIVE strip(_)
strip(line) ==
    IF line # <<>> /\ Head(line) \in {" ", "\n"} THEN strip(Tail(line))
    ELSE IF line # <<>> /\ line[Len(line)] \in {" ", "\n"}
    THEN strip(SubSeq(line, 1, Len(line) - 1))
    ELSE line

\* text.split("."), chunk being the piece read so far
RECURSIVE split(_, _)
split(text, chunk) ==
    IF text = <<>> THEN <<chunk>>
    ELSE IF Head(text) = "." THEN <<chunk>> \o split(Tail(text), <<>>)
    ELSE split(Tail(text), Append(chunk, Head(text)))

\* int(chunk) for a chunk of decimal digits
RECURSIVE int(_)
int(chunk) ==
    IF chunk = <<>> THEN 0
    ELSE 10 * int(SubSeq(chunk, 1, Len(chunk) - 1))
             + (CHOOSE d \in 0..9 : Digits[d + 1] = chunk[Len(chunk)])

\* str(n) for n >= 0, as an f-string formats it
RECURSIVE str(_)
str(n) == IF n < 10 THEN <<Digits[n + 1]>> ELSE str(n \div 10) \o <<Digits[(n % 10) + 1]>>

\* the version of a line (lines 15-16)
ParseVersion(line) ==
    LET chunks == split(Tail(strip(line)), <<>>)
    IN  <<int(chunks[1]), int(chunks[2]), int(chunks[3])>>

\* 'if version[0] >= 0 and version[1] >= 10 and version[2] >= 0'
Tracked(version) == version[1] >= 0 /\ version[2] >= 10 /\ version[3] >= 0

\* a < b for tuples of integers of the same length, as Python orders them
RECURSIVE TupleLess(_, _)
TupleLess(a, b) ==
    /\ a # <<>>
    /\ \/ Head(a) < Head(b)
       \/ Head(a) = Head(b) /\ TupleLess(Tail(a), Tail(b))

\* sorted(versions, reverse=True)
RECURSIVE SortedReverse(_)
SortedReverse(versions) ==
    IF versions = <<>> THEN <<>>
    ELSE LET i == CHOOSE i \in DOMAIN versions :
                      \A j \in DOMAIN versions : ~TupleLess(versions[i], versions[j])
         IN  <<versions[i]>>
                 \o SortedReverse(SubSeq(versions, 1, i - 1)
                                      \o SubSeq(versions, i + 1, Len(versions)))

\* f"v{version[0]}.{version[1]}.{version[2]}"
VersionName(version) ==
    <<"v">> \o str(version[1]) \o <<".">> \o str(version[2]) \o <<".">> \o str(version[3])

\* the entry of a version (lines 33-41)
Entry(version, latest) ==
    [version |-> VersionName(version), title |-> VersionName(version),
     aliases |-> IF version = latest THEN <<"latest">> ELSE <<>>]

\* the entries of "latest" and "master" (lines 25-28)
FixedEntries ==
    <<[version |-> <<"l", "a", "t", "e", "s", "t">>,
       title |-> <<"l", "a", "t", "e", "s", "t">>, aliases |-> <<>>],
      [version |-> <<"m", "a", "s", "t", "e", "r">>,
       title |-> <<"m", "a", "s", "t", "e", "r">>, aliases |-> <<>>]>>

\* ------------------------------------------------------------------------
\* SpecDocs: one run of the script

\* the lines of stdin: "v<major>.<minor>.<patch>\n"
DocsLines ==
    {<<"v">> \o a \o <<".">> \o b \o <<".">> \o c \o <<"\n">> :
        a \in {<<"0">>, <<"1">>},
        b \in {<<"9">>, <<"1", "0">>},
        c \in {<<"0">>, <<"5">>}}

\* docs.input: all of stdin; docs.stdin: the lines not yet read
InitDocs ==
    /\ pc = "docs"
    /\ keys = <<>> /\ isList = TRUE /\ Hash = "StrSaltHash" /\ pow2 = FALSE
    /\ trials = 1 /\ NK = 0 /\ NG = 0 /\ trial = 0
    /\ G = NoGraph /\ f1 = NoHash /\ f2 = NoHash
    /\ ret = NoReturn
    /\ created = [graphs |-> 0, hashes |-> 0, draws |-> 0]
    /\ edges = <<>>
    /\ hist = {}
    /\ fmt = NoFormat
    /\ \E input \in SeqsUpTo(DocsLines, MaxLines) :
          docs = [input |-> input, stdin |-> input, versions |-> <<>>,
                  entries |-> <<>>]

\* one pass of 'for line in sys.stdin' (lines 14-21)
DocsReadLine ==
    /\ pc = "docs"
    /\ docs.stdin # <<>>
    /\ LET version == ParseVersion(Head(docs.stdin))
       IN  docs' = [docs EXCEPT
                      !.stdin = Tail(@),
                      !.versions = IF Tracked(version) THEN Append(@, version)
                                   ELSE @]
    /\ UNCHANGED <<pc, keys, isList, Hash, pow2, trials, NK, NG, trial, G, f1,
                   f2, ret, created, edges, hist, fmt>>

\* the rest of the script, stdin being at its end (lines 23-43)
DocsEntries ==
    /\ pc = "docs"
    /\ docs.stdin = <<>>
    /\ LET versions == SortedReverse(docs.versions)
           latest == IF versions # <<>> THEN versions[1] ELSE None
       IN  docs' = [docs EXCEPT
                      !.versions = versions,
                      !.entries = FixedEntries
                          \o [i \in DOMAIN versions |-> Entry(versions[i], latest)]]
    /\ pc' = "printed"
    /\ UNCHANGED <<keys, isList, Hash, pow2, trials, NK, NG, trial, G, f1,
                   f2, ret, created, edges, hist, fmt>>

NextDocs == DocsReadLine \/ DocsEntries

SpecDocs == InitDocs /\ [][NextDocs]_vars

\* ------------------------------------------------------------------------
\* The docs version script's claim

\* the versions the output names, the two fixed entries apart
NamedVersions ==
    {docs.entries[i].version : i \in (DOMAIN docs.entries) \ {1, 2}}

\* C13: the script keeps exactly the versions that are not older than
\* 0.10.0: every input version that is 0.10.0 or later in version order is
\* in the output entries, and every version before 0.10.0 is left out.
C13_KeepsFromZeroTen ==
    pc = "printed" =>
        \A i \in DOMAIN docs.input :
            LET version == ParseVersion(docs.input[i])
            IN  ~TupleLess(version, <<0, 10, 0>>)
                    <=> VersionName(version) \in NamedVersions

\* ------------------------------------------------------------------------
\* generate_code's assertions

\* 'assert f1.N == f2.N == len(G)' and 'assert salt_len == len(f2.salt)'
\* with salt_len = len(f1.salt), on what generate_hash returned
GenerateCodeAsserts(h1, h2, table) ==
    /\ h1.N = h2.N /\ h2.N = TableLen(table)
    /\ Len(h1.salt) = Len(h2.salt)

\* C14: after any successful generate_hash the assertions of generate_code
\* cannot fail: f1.N = f2.N = len(G) and len(f1.salt) = len(f2.salt), both
\* being the largest encoded key length of the key list.
C14_GenerateCodeAssertsHold ==
    pc = "done" =>
        /\ GenerateCodeAsserts(ret.f1, ret.f2, ret.G)
        /\ Len(ret.f1.salt) = MaxKeyLen(keys)
        /\ Len(ret.f2.salt) = MaxKeyLen(keys)

\* "a" then "é" hashed: the salts grew to one value, then to two
C14_Witness ==
    /\ pc = "done"
    /\ keys = <<Str(<<97>>), Str(<<233>>)>>
    /\ Len(ret.f1.salt) = 2 /\ Len(ret.f2.salt) = 2
    /\ ret.f1.N > 3 /\ TableLen(ret.G) = ret.f1.N

\* ------------------------------------------------------------------------
\* The empty key

\* 'keys' is a list of distinct strs, one of them the empty string
HasEmptyKey == DistinctStrKeys /\ \E i \in DOMAIN keys : keys[i] = Str(<<>>)

\* generate_hash raised TooManyInterationsError
Exhausted == pc = "raised" /\ ret.kind = "TooManyInterationsError"

\* C15: if the key list contains the empty string no trial of generate_hash
\* succeeds (both hash functions give the empty key 0, a self-loop on
\* vertex 0) and the call always ends with TooManyInterationsError; the
\* empty key is not rejected up front: trials are made before the error.
C15_EmptyKeyExhausts ==
    /\ [](HasEmptyKey =>
            /\ pc # "done"
            /\ pc = "raised" => (Exhausted /\ created.graphs >= 1)
            /\ pc = "search" => created.graphs = trial)
    /\ (HasEmptyKey ~> Exhausted)

\* ["a", ""] was given up on after more than 100 failed trials
C15_Witness ==
    /\ keys = <<Str(<<97>>), Str(<<>>)>>
    /\ Exhausted /\ ~pow2 /\ trials = 2
    /\ created.graphs > 100 /\ trial = created.graphs + 1

=============================================================================
